---- MODULE Spec2Model ----
(***************************************************************************)
(* Model of the steward attestation service:                               *)
(*   - the SGX Quote parser and verifier   (src/src/ext/sgx/quote/mod.rs)  *)
(*   - the AMD SNP report views            (src/src/main.rs, SnpReportData)*)
(*   - the /attest issuance handler        (src/src/main.rs, attest)       *)
(* Byte buffers are sequences of 0..255; a Rust slice index that is out of *)
(* range is a panic, which the model records as the outcome "Panic".       *)
(***************************************************************************)
EXTENDS Integers, Sequences, FiniteSets, TLC

VARIABLES
    quotePc,      \* "idle" | "parsed" | "bodyParsed" | "verified"
    quoteBuf,     \* the buffer handed to Quote::try_from / QuoteBodyV3::try_from
    quoteRes,     \* outcome of the parse
    verifyIn,     \* outcomes of the three delegated checks for the parsed quote
    verifyRes,    \* outcome of Quote::verify
    snpPc,        \* "idle" | "loaded"
    snpReport,    \* the 0x4A0 bytes of the SnpReportData
    snpMessage,   \* last value returned by get_message
    snpSignature, \* last value returned by get_signature
    snpPrevReport,    \* the report before the last byte change
    snpPrevSignature, \* its get_signature
    snpEdits,     \* number of byte changes applied since the load
    ord,          \* State.ord
    stateCrt,     \* State.crt: "ok" | "bad"
    stateKey,     \* State.key: "ok" | "bad"
    reqs,         \* the requests in flight, by slot
    fetchLog      \* the values returned by ord.fetch_add, in the order of the operations

vars == <<quotePc, quoteBuf, quoteRes, verifyIn, verifyRes,
          snpPc, snpReport, snpMessage, snpSignature, snpPrevReport,
          snpPrevSignature, snpEdits,
          ord, stateCrt, stateKey, reqs, fetchLog>>

quoteVars == <<quotePc, quoteBuf, quoteRes, verifyIn, verifyRes>>
snpVars == <<snpPc, snpReport, snpMessage, snpSignature, snpPrevReport,
             snpPrevSignature, snpEdits>>
attestVars == <<ord, stateCrt, stateKey, reqs, fetchLog>>

(***************************************************************************)
(* Bounds of the explored inputs.                                          *)
(***************************************************************************)
MaxTrailing == 2
MaxEdits == 2
MaxReq == 3

(***************************************************************************)
(* sizes.rs                                                                *)
(***************************************************************************)
SIG_SIZE == 64
PUB_KEY_SIZE == 64
QUOTE_HEADER_SIZE == 48
REPORT_SIZE == 384
U32_SIZE == 4
QUOTE_SIG_DATA_LEN_SIZE == U32_SIZE
QUOTE_SIG_START == QUOTE_HEADER_SIZE + REPORT_SIZE + QUOTE_SIG_DATA_LEN_SIZE

(***************************************************************************)
(* QuoteError values. One record shape for every kind.                     *)
(***************************************************************************)
NoErr == [kind |-> "none", label |-> "", expected |-> 0, actual |-> 0]
LengthMismatch(label, expected, actual) ==
    [kind |-> "LengthMismatch", label |-> label, expected |-> expected, actual |-> actual]
UnsupportedVersion(tag) ==
    [kind |-> "UnsupportedVersion", label |-> "", expected |-> 0, actual |-> tag]

(***************************************************************************)
(* Rust's &bytes[from..to]: a panic unless from <= to <= len.              *)
(***************************************************************************)
Slice(bytes, from, to) ==
    IF from <= to /\ to <= Len(bytes)
    THEN [panic |-> FALSE, val |-> SubSeq(bytes, from + 1, to)]
    ELSE [panic |-> TRUE, val |-> <<>>]

\* cast::slice_cast::<N>(label, bytes)
slice_cast(n, label, bytes) ==
    IF Len(bytes) = n
    THEN [ok |-> TRUE, val |-> bytes, err |-> NoErr]
    ELSE [ok |-> FALSE, val |-> <<>>, err |-> LengthMismatch(label, n, Len(bytes))]

\* u32::from_le_bytes
u32_from_le_bytes(b) == b[1] + 256 * b[2] + 65536 * b[3] + 16777216 * b[4]

\* From<[u8; 48]> for QuoteHeader: the version tag is the little-endian u16 at
\* the start of the header.
QuoteHeader_from(b) == [version |-> b[1] + 256 * b[2], raw |-> b]

\* QuoteHeader::version
QuoteHeader_version(header) ==
    IF header.version = 3
    THEN [ok |-> TRUE, val |-> "V3", err |-> NoErr]
    ELSE [ok |-> FALSE, val |-> "", err |-> UnsupportedVersion(header.version)]

\* cast::report_body_from_bytes: a reinterpretation of the 384 bytes.
report_body_from_bytes(b) == b

SIG_DATA_FIXED == SIG_SIZE + PUB_KEY_SIZE + REPORT_SIZE + SIG_SIZE

NoSigData == [isv_sig |-> <<>>, ak_pub |-> <<>>, qe_report |-> <<>>, qe_sig |-> <<>>,
              cert_data |-> <<>>, bytes |-> <<>>]

\* SigData::try_from: the fixed-offset fields, then the trailing certification data.
SigData_try_from(bytes) ==
    IF Len(bytes) < SIG_DATA_FIXED
    THEN [ok |-> FALSE, val |-> NoSigData,
          err |-> LengthMismatch("sig data", SIG_DATA_FIXED, Len(bytes))]
    ELSE [ok |-> TRUE, err |-> NoErr,
          val |-> [isv_sig |-> SubSeq(bytes, 1, SIG_SIZE),
                   ak_pub |-> SubSeq(bytes, SIG_SIZE + 1, SIG_SIZE + PUB_KEY_SIZE),
                   qe_report |-> SubSeq(bytes, SIG_SIZE + PUB_KEY_SIZE + 1,
                                        SIG_SIZE + PUB_KEY_SIZE + REPORT_SIZE),
                   qe_sig |-> SubSeq(bytes, SIG_SIZE + PUB_KEY_SIZE + REPORT_SIZE + 1,
                                     SIG_DATA_FIXED),
                   cert_data |-> SubSeq(bytes, SIG_DATA_FIXED + 1, Len(bytes)),
                   bytes |-> bytes]]

(***************************************************************************)
(* Outcome of a parse: status "Ok" | "Err" | "Panic", the error, the value *)
(* and the sub-operations invoked on the way, in order.                    *)
(***************************************************************************)
NoBody == [variant |-> "", report_body |-> <<>>, sig_data_len |-> 0, sig_data |-> NoSigData]
NoHeader == [version |-> 0, raw |-> <<>>]

BodyOut(status, err, body, calls) ==
    [status |-> status, err |-> err, header |-> NoHeader, body |-> body, calls |-> calls]

\* mod.rs:155
expected_quote_len_short(sig_data_len) == QUOTE_SIG_START + sig_data_len - 1
expected_quote_len(sig_data_len) == QUOTE_SIG_START + sig_data_len

\* impl TryFrom<&[u8]> for QuoteBodyV3
QuoteBodyV3_try_from(bytes) ==
    LET c0 == <<"QuoteBodyV3::try_from">>
        s1 == Slice(bytes, QUOTE_HEADER_SIZE, QUOTE_HEADER_SIZE + REPORT_SIZE)
    IN
    IF s1.panic THEN BodyOut("Panic", NoErr, NoBody, c0) ELSE
    LET r1 == slice_cast(REPORT_SIZE, "isv enclave report", s1.val)
        c1 == Append(c0, "slice_cast:isv enclave report")
    IN
    IF ~r1.ok THEN BodyOut("Err", r1.err, NoBody, c1) ELSE
    LET report_body == report_body_from_bytes(r1.val)
        s2 == Slice(bytes, QUOTE_SIG_START - QUOTE_SIG_DATA_LEN_SIZE, QUOTE_SIG_START)
    IN
    IF s2.panic THEN BodyOut("Panic", NoErr, NoBody, c1) ELSE
    LET r2 == slice_cast(U32_SIZE, "sig data len", s2.val)
        c2 == Append(c1, "slice_cast:sig data len")
    IN
    IF ~r2.ok THEN BodyOut("Err", r2.err, NoBody, c2) ELSE
    LET sig_data_len == u32_from_le_bytes(r2.val)
        s3 == Slice(bytes, QUOTE_SIG_START, expected_quote_len(sig_data_len))
    IN
    IF s3.panic THEN BodyOut("Panic", NoErr, NoBody, c2) ELSE
    LET r3 == SigData_try_from(s3.val)
        c3 == Append(c2, "SigData::try_from")
    IN
    IF ~r3.ok THEN BodyOut("Err", r3.err, NoBody, c3) ELSE
    BodyOut("Ok", NoErr,
            [variant |-> "V3", report_body |-> report_body,
             sig_data_len |-> sig_data_len, sig_data |-> r3.val],
            c3)

\* A dispatch that treats an unknown version as V3.
QuoteBody_try_from_fallback(header, bytes) ==
    LET b == QuoteBodyV3_try_from(bytes) IN
    [b EXCEPT !.calls = <<"header.version">> \o b.calls]

\* impl TryFrom<(&QuoteHeader, &[u8])> for QuoteBody
QuoteBody_try_from(header, bytes) ==
    LET v == QuoteHeader_version(header)
        c0 == <<"header.version">>
    IN
    IF ~v.ok THEN BodyOut("Err", v.err, NoBody, c0) ELSE
    CASE v.val = "V3" ->
        LET b == QuoteBodyV3_try_from(bytes) IN
        [b EXCEPT !.calls = c0 \o b.calls]

\* impl TryFrom<&[u8]> for Quote
Quote_try_from(bytes) ==
    LET s0 == Slice(bytes, 0, QUOTE_HEADER_SIZE) IN
    IF s0.panic THEN BodyOut("Panic", NoErr, NoBody, <<>>) ELSE
    LET r0 == slice_cast(QUOTE_HEADER_SIZE, "header", s0.val)
        c0 == <<"slice_cast:header">>
    IN
    IF ~r0.ok THEN BodyOut("Err", r0.err, NoBody, c0) ELSE
    LET header == QuoteHeader_from(r0.val)
        b == QuoteBody_try_from(header, bytes)
    IN
    [b EXCEPT !.calls = c0 \o b.calls,
              !.header = IF b.status = "Ok" THEN header ELSE NoHeader]

(***************************************************************************)
(* Quote::verify. The three delegated checks (header.verify,               *)
(* report::quote_report_body_verify, SigData::verify) are given by their   *)
(* outcomes: "Ok" or the error each one reports.                           *)
(***************************************************************************)
VerifyOut(result, calls) == [result |-> result, calls |-> calls]

\* The checks of the body in the opposite order.
QuoteBodyV3_verify_swapped(checks) ==
    IF checks.sig # "Ok" THEN VerifyOut(checks.sig, <<"SigData::verify">>) ELSE
    IF checks.report # "Ok"
    THEN VerifyOut(checks.report, <<"SigData::verify", "quote_report_body_verify">>)
    ELSE VerifyOut("Ok", <<"SigData::verify", "quote_report_body_verify">>)

\* QuoteBodyV3::verify
QuoteBodyV3_verify(checks) ==
    IF checks.report # "Ok"
    THEN VerifyOut(checks.report, <<"quote_report_body_verify">>) ELSE
    IF checks.sig # "Ok"
    THEN VerifyOut(checks.sig, <<"quote_report_body_verify", "SigData::verify">>)
    ELSE VerifyOut("Ok", <<"quote_report_body_verify", "SigData::verify">>)

\* QuoteBody::verify
QuoteBody_verify(body, checks) ==
    CASE body.variant = "V3" -> QuoteBodyV3_verify(checks)

\* Quote::verify
Quote_verify(quote, checks) ==
    IF checks.header # "Ok" THEN VerifyOut(checks.header, <<"header.verify">>) ELSE
    LET b == QuoteBody_verify(quote.body, checks) IN
    VerifyOut(b.result, <<"header.verify">> \o b.calls)

(***************************************************************************)
(* Quote buffers explored: every length around each region boundary and    *)
(* around the end of the declared signature block, several version tags,   *)
(* several declared lengths.                                               *)
(***************************************************************************)
Fill(i) == (i * 7 + 3) % 251

\* The declared signature-block lengths, as the four bytes at [432, 436).
DeclaredLenBytes ==
    { <<0, 0, 0, 0>>, <<1, 0, 0, 0>>, <<63, 0, 0, 0>>, <<64, 0, 0, 0>>,
      <<63, 2, 0, 0>>, <<64, 2, 0, 0>>, <<65, 2, 0, 0>>, <<232, 3, 0, 0>>,
      <<0, 0, 2, 64>> }

VersionTags == {2, 3, 4, 259}

DeclaredLens == {0, 1, 63, 64, 575, 576, 577, 1000}

QuoteLens ==
    {0, 1, 47, 48, 49, 431, 432, 433, 435}
    \cup { QUOTE_SIG_START + d + k : d \in DeclaredLens, k \in 0..MaxTrailing }

MkQuoteBuf(len, tag, lb) ==
    [i \in 1..len |->
        IF i = 1 THEN tag % 256
        ELSE IF i = 2 THEN tag \div 256
        ELSE IF i > QUOTE_SIG_START - QUOTE_SIG_DATA_LEN_SIZE /\ i <= QUOTE_SIG_START
             THEN lb[i - (QUOTE_SIG_START - QUOTE_SIG_DATA_LEN_SIZE)]
        ELSE Fill(i)]

CheckOutcomes == [header : {"Ok", "HeaderCheckFailed"},
                  report : {"Ok", "ReportCheckFailed"},
                  sig : {"Ok", "SignatureInvalid"}]

NoChecks == [header |-> "", report |-> "", sig |-> ""]
NoVerify == VerifyOut("", <<>>)
NoParse == BodyOut("", NoErr, NoBody, <<>>)

InitQuote ==
    /\ quotePc = "idle"
    /\ quoteBuf = <<>>
    /\ quoteRes = NoParse
    /\ verifyIn = NoChecks
    /\ verifyRes = NoVerify

\* A caller hands a buffer to Quote::try_from.
ParseQuote ==
    /\ quotePc = "idle"
    /\ \E len \in QuoteLens, tag \in VersionTags, lb \in DeclaredLenBytes :
          LET bytes == MkQuoteBuf(len, tag, lb) IN
          /\ quoteBuf' = bytes
          /\ quoteRes' = Quote_try_from(bytes)
    /\ quotePc' = "parsed"
    /\ UNCHANGED <<verifyIn, verifyRes, snpVars, attestVars>>

\* A caller hands a buffer to QuoteBodyV3::try_from directly.
ParseBodyV3 ==
    /\ quotePc = "idle"
    /\ \E len \in QuoteLens, tag \in VersionTags, lb \in DeclaredLenBytes :
          LET bytes == MkQuoteBuf(len, tag, lb) IN
          /\ quoteBuf' = bytes
          /\ quoteRes' = QuoteBodyV3_try_from(bytes)
    /\ quotePc' = "bodyParsed"
    /\ UNCHANGED <<verifyIn, verifyRes, snpVars, attestVars>>

\* The caller calls verify() on the Quote it obtained.
VerifyQuote ==
    /\ quotePc = "parsed"
    /\ quoteRes.status = "Ok"
    /\ \E checks \in CheckOutcomes :
          /\ verifyIn' = checks
          /\ verifyRes' = Quote_verify(quoteRes, checks)
    /\ quotePc' = "verified"
    /\ UNCHANGED <<quoteBuf, quoteRes, snpVars, attestVars>>

\* The caller drops the buffer and the values borrowed from it.
DropQuote ==
    /\ quotePc # "idle"
    /\ quotePc' = "idle"
    /\ quoteBuf' = <<>>
    /\ quoteRes' = NoParse
    /\ verifyIn' = NoChecks
    /\ verifyRes' = NoVerify
    /\ UNCHANGED <<snpVars, attestVars>>

NextQuote ==
    \/ ParseQuote
    \/ ParseBodyV3
    \/ VerifyQuote
    \/ DropQuote


(***************************************************************************)
(* AMD SNP report (main.rs, SnpReportData): 0x4A0 bytes, the signature     *)
(* field at 0x2A0, R and S in its first two 0x48-byte fields.              *)
(***************************************************************************)
SNP_REPORT_SIZE == 1184
SNP_SIGNATURE_OFFSET == 672
SNP_BIGNUM_SIZE == 72

\* Vec::reverse
Reverse(s) == [i \in 1..Len(s) |-> s[Len(s) + 1 - i]]

\* slice::split_at_mut(mid)
SplitAt(s, mid) == <<SubSeq(s, 1, mid), SubSeq(s, mid + 1, Len(s))>>

\* der: leading zero bytes are dropped, the last byte is kept.
RECURSIVE strip_leading_zeroes(_)
strip_leading_zeroes(b) ==
    IF Len(b) > 1 /\ b[1] = 0 THEN strip_leading_zeroes(Tail(b)) ELSE b

\* der: Length::MAX, the longest value a DER length is allowed to state.
DER_LENGTH_MAX == 268435455

\* der: UIntBytes::new
UIntBytes_new(b) ==
    LET inner == strip_leading_zeroes(b) IN
    IF Len(inner) > DER_LENGTH_MAX
    THEN [ok |-> FALSE, inner |-> <<>>]
    ELSE [ok |-> TRUE, inner |-> inner]

\* der: the definite-length octets of a header.
DerLength(n) ==
    IF n < 128 THEN <<n>>
    ELSE IF n < 256 THEN <<129, n>>
    ELSE <<130, n \div 256, n % 256>>

\* der: INTEGER of an unsigned value: a zero byte goes in front when the first
\* byte has its high bit set.
UIntBytes_encode(u) ==
    LET body == IF Len(u.inner) > 0 /\ u.inner[1] >= 128 THEN <<0>> \o u.inner ELSE u.inner
    IN <<2>> \o DerLength(Len(body)) \o body

\* #[derive(Sequence)] EcdsaSig { r, s }: to_vec
EcdsaSig_to_vec(r, s) ==
    LET body == UIntBytes_encode(r) \o UIntBytes_encode(s)
    IN <<48>> \o DerLength(Len(body)) \o body

\* A message that takes one byte of the signature field with it.
get_message_long(report) == Slice(report, 0, SNP_SIGNATURE_OFFSET + 1).val

\* SnpReportData::get_message
get_message(report) == Slice(report, 0, SNP_SIGNATURE_OFFSET).val

\* R and S taken from the same field.
get_signature_same_field(report) ==
    LET r == Reverse(Slice(report, SNP_SIGNATURE_OFFSET,
                           SNP_SIGNATURE_OFFSET + SNP_BIGNUM_SIZE).val)
        ur == UIntBytes_new(r)
    IN [panic |-> FALSE, val |-> EcdsaSig_to_vec(ur, ur)]

\* SnpReportData::get_signature; unwrap() of a failed encoding is a panic.
get_signature(report) ==
    LET r == Reverse(Slice(report, SNP_SIGNATURE_OFFSET,
                           SNP_SIGNATURE_OFFSET + SNP_BIGNUM_SIZE).val)
        s == Reverse(Slice(report, SNP_SIGNATURE_OFFSET + SNP_BIGNUM_SIZE,
                           SNP_SIGNATURE_OFFSET + 2 * SNP_BIGNUM_SIZE).val)
        ur == UIntBytes_new(r)
        us == UIntBytes_new(s)
    IN
    IF ~ur.ok \/ ~us.ok
    THEN [panic |-> TRUE, val |-> <<>>]
    ELSE [panic |-> FALSE, val |-> EcdsaSig_to_vec(ur, us)]

\* tests::attest::test_milan_validation: the signature built by hand from the file.
test_milan_validation_der(test_file) ==
    LET parts == SplitAt(test_file, 672)
        test_signature == parts[2]
        p1 == SplitAt(test_signature, 72)
        p2 == SplitAt(p1[2], 72)
        r == Reverse(p1[1])
        s == Reverse(p2[1])
    IN EcdsaSig_to_vec(UIntBytes_new(r), UIntBytes_new(s))

(***************************************************************************)
(* Reports explored: three base reports, then single-byte changes at the   *)
(* field boundaries.                                                       *)
(***************************************************************************)
SnpSeeds == {0, 1, 2}

\* 0: every byte set; 1: 48-byte R and S padded with zeroes, as a P-384
\* signature is stored; 2: a signature field of zeroes.
BaseReport(seed) ==
    [i \in 1..SNP_REPORT_SIZE |->
        IF seed = 0 \/ i <= SNP_SIGNATURE_OFFSET THEN 1 + Fill(i + seed)
        ELSE IF seed = 2 THEN 0
        ELSE IF i > SNP_SIGNATURE_OFFSET + 2 * SNP_BIGNUM_SIZE THEN 0
        ELSE IF ((i - SNP_SIGNATURE_OFFSET - 1) % SNP_BIGNUM_SIZE) >= 48 THEN 0
        ELSE 1 + Fill(i)]

\* Offsets (from 0) of the bytes changed.
ProbeOffsets ==
    {0, SNP_SIGNATURE_OFFSET - 1, SNP_SIGNATURE_OFFSET,
     SNP_SIGNATURE_OFFSET + SNP_BIGNUM_SIZE - 1, SNP_SIGNATURE_OFFSET + SNP_BIGNUM_SIZE,
     SNP_SIGNATURE_OFFSET + 2 * SNP_BIGNUM_SIZE - 1,
     SNP_SIGNATURE_OFFSET + 2 * SNP_BIGNUM_SIZE, SNP_REPORT_SIZE - 1}

ProbeValues == {0, 128}

InitSnp ==
    /\ snpPc = "idle"
    /\ snpReport = <<>>
    /\ snpMessage = <<>>
    /\ snpSignature = <<>>
    /\ snpPrevReport = <<>>
    /\ snpPrevSignature = <<>>
    /\ snpEdits = 0

\* transmute::<[u8; 0x4A0], SnpReportData>
LoadReport ==
    /\ snpPc = "idle"
    /\ \E seed \in SnpSeeds : snpReport' = BaseReport(seed)
    /\ snpPc' = "loaded"
    /\ UNCHANGED <<snpMessage, snpSignature, snpPrevReport, snpPrevSignature, snpEdits>>
    /\ UNCHANGED <<quoteVars, attestVars>>

CallGetMessage ==
    /\ snpPc = "loaded"
    /\ snpMessage = <<>>
    /\ snpMessage' = get_message(snpReport)
    /\ UNCHANGED <<snpPc, snpReport, snpSignature, snpPrevReport, snpPrevSignature, snpEdits>>
    /\ UNCHANGED <<quoteVars, attestVars>>

CallGetSignature ==
    /\ snpPc = "loaded"
    /\ snpSignature = <<>>
    /\ LET g == get_signature(snpReport) IN
          /\ snpSignature' = g.val
          /\ snpPc' = IF g.panic THEN "panicked" ELSE "loaded"
    /\ UNCHANGED <<snpReport, snpMessage, snpPrevReport, snpPrevSignature, snpEdits>>
    /\ UNCHANGED <<quoteVars, attestVars>>

\* Another report: the one at hand with one byte changed.
EditByte ==
    /\ snpPc = "loaded"
    /\ snpSignature # <<>>
    /\ snpEdits < MaxEdits
    /\ \E off \in ProbeOffsets, v \in ProbeValues :
          /\ snpReport[off + 1] # v
          /\ snpReport' = [snpReport EXCEPT ![off + 1] = v]
    /\ snpPrevReport' = snpReport
    /\ snpPrevSignature' = snpSignature
    /\ snpMessage' = <<>>
    /\ snpSignature' = <<>>
    /\ snpEdits' = snpEdits + 1
    /\ UNCHANGED <<snpPc, quoteVars, attestVars>>

DropReport ==
    /\ snpPc # "idle"
    /\ snpPc' = "idle"
    /\ snpReport' = <<>>
    /\ snpMessage' = <<>>
    /\ snpSignature' = <<>>
    /\ snpPrevReport' = <<>>
    /\ snpPrevSignature' = <<>>
    /\ snpEdits' = 0
    /\ UNCHANGED <<quoteVars, attestVars>>

NextSnp ==
    \/ LoadReport
    \/ CallGetMessage
    \/ CallGetSignature
    \/ EditByte
    \/ DropReport


(***************************************************************************)
(* The /attest handler (main.rs, attest). A request is handled in three    *)
(* steps: the checks before the serial number is taken, the atomic         *)
(* fetch_add on State.ord, and the construction and signing of the         *)
(* certificate. Handlers of different requests run on different threads.   *)
(***************************************************************************)
PKCS10 == "application/pkcs10"

ContentTypes == {"none", PKCS10, "text/plain"}
Bodies == {"empty", "garbage", "csr_bad_sig", "csr_ok"}
Slots == 1..MaxReq

NoCert == [built |-> FALSE, serial_number |-> 0, subject_public_key_info |-> ""]
IdleReq == [pc |-> "idle", ct |-> "none", body |-> "empty",
            status |-> "", hasSerial |-> FALSE, serial |-> 0, cert |-> NoCert]

\* CertReq::from_der(body)
CertReq_from_der(body) == body \in {"csr_bad_sig", "csr_ok"}

\* cr.verify()
CertReq_verify(body) == body = "csr_ok"

\* The checks with the CSR's signature left unverified.
attest_checks_no_verify(ct, body, timeOk) ==
    IF ct = "none" THEN "BAD_REQUEST"
    ELSE IF ct # PKCS10 THEN "BAD_REQUEST"
    ELSE IF ~CertReq_from_der(body) THEN "BAD_REQUEST"
    ELSE IF ~timeOk THEN "INTERNAL_SERVER_ERROR"
    ELSE "continue"

\* attest, up to the serial number: the TypedHeader extractor, the mime check,
\* the decoding and verification of the request, the validity.
attest_checks(ct, body, timeOk) ==
    IF ct = "none" THEN "BAD_REQUEST"
    ELSE IF ct # PKCS10 THEN "BAD_REQUEST"
    ELSE IF ~CertReq_from_der(body) THEN "BAD_REQUEST"
    ELSE IF ~CertReq_verify(body) THEN "BAD_REQUEST"
    ELSE IF ~timeOk THEN "INTERNAL_SERVER_ERROR"
    ELSE "continue"

\* A counter advanced by two.
fetch_add_twice(o) == [old |-> o, new |-> o + 2]

\* A counter that is read and not advanced.
fetch_add_stuck(o) == [old |-> o, new |-> o]

\* AtomicUsize::fetch_add(1, SeqCst): the previous value, and the value stored.
\* The addition wraps at usize::MAX, which no run of MaxReq requests reaches.
fetch_add(o) == [old |-> o, new |-> o + 1]

\* attest, after the serial number: the issuer and its key are decoded, the
\* certificate is built and signed (signOk: the signing succeeds).
attest_issue(serial, body, crt, key, signOk) ==
    IF crt # "ok" THEN [status |-> "INTERNAL_SERVER_ERROR", cert |-> NoCert]
    ELSE IF key # "ok" THEN [status |-> "INTERNAL_SERVER_ERROR", cert |-> NoCert]
    ELSE IF ~signOk THEN [status |-> "INTERNAL_SERVER_ERROR", cert |-> NoCert]
    ELSE [status |-> "OK",
          cert |-> [built |-> TRUE, serial_number |-> serial,
                    subject_public_key_info |-> body]]

InitAttest ==
    /\ ord = 0
    /\ stateCrt \in {"ok", "bad"}
    /\ stateKey \in {"ok", "bad"}
    /\ reqs = [r \in Slots |-> IdleReq]
    /\ fetchLog = <<>>

\* A request arrives and is checked. Slots are taken in the order of arrival;
\* timeOk says whether the system clock converts to a certificate time.
Validate(r) ==
    /\ reqs[r].pc = "idle"
    /\ IF r = 1 THEN TRUE ELSE reqs[r - 1].pc # "idle"
    /\ \E ct \in ContentTypes, body \in Bodies, timeOk \in BOOLEAN :
          LET c == attest_checks(ct, body, timeOk) IN
          reqs' = [reqs EXCEPT ![r] =
                     [@ EXCEPT !.ct = ct, !.body = body,
                               !.pc = IF c = "continue" THEN "fetch" ELSE "done",
                               !.status = IF c = "continue" THEN "" ELSE c]]
    /\ UNCHANGED <<ord, stateCrt, stateKey, fetchLog, quoteVars, snpVars>>

\* state.ord.fetch_add(1, Ordering::SeqCst)
FetchAdd(r) ==
    /\ reqs[r].pc = "fetch"
    /\ LET f == fetch_add(ord) IN
          /\ ord' = f.new
          /\ reqs' = [reqs EXCEPT ![r] = [@ EXCEPT !.pc = "sign", !.hasSerial = TRUE, !.serial = f.old]]
          /\ fetchLog' = Append(fetchLog, f.old)
    /\ UNCHANGED <<stateCrt, stateKey, quoteVars, snpVars>>

Issue(r) ==
    /\ reqs[r].pc = "sign"
    /\ \E signOk \in BOOLEAN :
          LET i == attest_issue(reqs[r].serial, reqs[r].body, stateCrt, stateKey, signOk) IN
          reqs' = [reqs EXCEPT ![r] =
                     [@ EXCEPT !.pc = "done", !.status = i.status, !.cert = i.cert]]
    /\ UNCHANGED <<ord, stateCrt, stateKey, fetchLog, quoteVars, snpVars>>

NextAttest ==
    \/ \E r \in Slots : Validate(r)
    \/ \E r \in Slots : FetchAdd(r)
    \/ \E r \in Slots : Issue(r)

(***************************************************************************)
(* Specifications: one per component, the other components at rest.        *)
(***************************************************************************)
Init == InitQuote /\ InitSnp /\ InitAttest

\* The service loaded with a signing certificate and key that decode.
InitLoaded == Init /\ stateCrt = "ok" /\ stateKey = "ok"

Next == NextQuote \/ NextSnp \/ NextAttest

Spec == Init /\ [][Next]_vars

SpecQuote == InitLoaded /\ [][NextQuote]_vars

SpecSnp == InitLoaded /\ [][NextSnp]_vars

SpecAttest == Init /\ [][NextAttest]_vars


(***************************************************************************)
(* Claims about the Quote parser and verifier (SpecQuote).                 *)
(***************************************************************************)
Parsed == quotePc \in {"parsed", "bodyParsed", "verified"}
Invoked(name) == \E i \in 1..Len(quoteRes.calls) : quoteRes.calls[i] = name
BufVersionTag == quoteBuf[1] + 256 * quoteBuf[2]
BufDeclaredLen ==
    quoteBuf[433] + 256 * quoteBuf[434] + 65536 * quoteBuf[435] + 16777216 * quoteBuf[436]
\* The parse got as far as the declared length: QuoteBodyV3::try_from was
\* called directly, or through a header of version 3.
ReachedDeclaredLen ==
    /\ Parsed
    /\ Len(quoteBuf) >= 436
    /\ quotePc = "bodyParsed" \/ BufVersionTag = 3

\* C1: a buffer shorter than QUOTE_SIG_START + sig_data_len is answered with the
\* BufferTooShort error, before SigData::try_from is called and without a panic.
C1_BufferTooShort ==
    (ReachedDeclaredLen /\ Len(quoteBuf) < 436 + BufDeclaredLen)
        => /\ quoteRes.status = "Err"
           /\ quoteRes.err.kind = "BufferTooShort"
           /\ ~Invoked("SigData::try_from")

\* C2: a header whose version tag is not 3 is answered with the error of
\* header.version(), UnsupportedVersion, QuoteBodyV3::try_from is not called, and
\* a V3 body is produced only for a header of version 3.
C2_VersionGate ==
    (quotePc \in {"parsed", "verified"} /\ Len(quoteBuf) >= 48)
        => /\ BufVersionTag # 3 =>
                /\ quoteRes.status = "Err"
                /\ quoteRes.err = UnsupportedVersion(BufVersionTag)
                /\ ~Invoked("QuoteBodyV3::try_from")
                /\ quoteRes.body = NoBody
           /\ Invoked("QuoteBodyV3::try_from") => BufVersionTag = 3
           /\ quoteRes.body.variant = "V3" =>
                /\ BufVersionTag = 3
                /\ quoteRes.header.version = 3

\* A buffer of 48 bytes or more whose version tag is 4 has been rejected.
C2_Witness ==
    /\ quotePc = "parsed"
    /\ Len(quoteBuf) >= 436 + 576
    /\ BufVersionTag = 4
    /\ quoteRes.err.kind = "UnsupportedVersion"

VerifyOrder == <<"header.verify", "quote_report_body_verify", "SigData::verify">>

\* C3: Quote::verify calls header.verify, quote_report_body_verify and
\* SigData::verify in that order, each only when the earlier ones returned Ok;
\* it returns Ok exactly when all three do, and otherwise the error of the first
\* that failed.
C3_VerifyOrder ==
    quotePc = "verified" =>
        /\ verifyIn.header # "Ok" =>
              /\ verifyRes.result = verifyIn.header
              /\ verifyRes.calls = SubSeq(VerifyOrder, 1, 1)
        /\ (verifyIn.header = "Ok" /\ verifyIn.report # "Ok") =>
              /\ verifyRes.result = verifyIn.report
              /\ verifyRes.calls = SubSeq(VerifyOrder, 1, 2)
        /\ (verifyIn.header = "Ok" /\ verifyIn.report = "Ok") =>
              /\ verifyRes.result = verifyIn.sig
              /\ verifyRes.calls = VerifyOrder
        /\ verifyRes.result = "Ok" <=>
              (verifyIn.header = "Ok" /\ verifyIn.report = "Ok" /\ verifyIn.sig = "Ok")

\* The report check failed after the header check passed; the signature check,
\* which would fail too, was not run.
C3_Witness ==
    /\ quotePc = "verified"
    /\ verifyIn = [header |-> "Ok", report |-> "ReportCheckFailed", sig |-> "SignatureInvalid"]
    /\ verifyRes.result = "ReportCheckFailed"

\* C7: for every buffer the parse ends with a Quote or a QuoteError, never with
\* a panic, and the regions of a Quote have their exact widths.
C7_NoAbort ==
    Parsed =>
        /\ quoteRes.status \in {"Ok", "Err"}
        /\ Len(quoteBuf) < 48 + 384 + 4 => quoteRes.status = "Err"
        /\ quoteRes.status = "Ok" => Len(quoteRes.body.report_body) = 384

\* The part of C8 that the stored length and the region handed to SigData are
\* those the buffer declares.
DeclaredRegion ==
    /\ quoteRes.body.sig_data_len = BufDeclaredLen
    /\ Len(quoteRes.body.sig_data.bytes) = BufDeclaredLen
    /\ \A i \in 1..BufDeclaredLen : quoteRes.body.sig_data.bytes[i] = quoteBuf[436 + i]

\* C8, as claimed: for an accepted buffer the stored sig_data_len is the
\* little-endian u32 at [432, 436), SigData gets bytes [436, 436 + sig_data_len),
\* and 48 + 384 + 4 + sig_data_len is the length of the buffer.
C8_RoundTripExact ==
    (Parsed /\ quoteRes.status = "Ok")
        => /\ DeclaredRegion
           /\ 48 + 384 + 4 + quoteRes.body.sig_data_len = Len(quoteBuf)

\* C8, amended: for an accepted buffer the stored sig_data_len is the
\* little-endian u32 at [432, 436), SigData gets bytes [436, 436 + sig_data_len),
\* and 48 + 384 + 4 + sig_data_len is at most the length of the buffer.
C8_RoundTripAtMost ==
    (Parsed /\ quoteRes.status = "Ok")
        => /\ DeclaredRegion
           /\ 48 + 384 + 4 + quoteRes.body.sig_data_len <= Len(quoteBuf)

\* An accepted buffer with bytes after its declared signature block.
C8_Witness ==
    /\ Parsed
    /\ quoteRes.status = "Ok"
    /\ quoteRes.body.sig_data_len = 577
    /\ Len(quoteBuf) > 48 + 384 + 4 + 577

(***************************************************************************)
(* Claims about the SNP report (SpecSnp).                                  *)
(***************************************************************************)
\* C4: get_message returns the 0x2A0 bytes at [0, 0x2A0) of the 0x4A0-byte
\* report, in order, nothing of the signature field, and leaves the report as
\* it was.
C4_GetMessage ==
    [][CallGetMessage =>
          /\ Len(snpReport) = 1184
          /\ Len(snpMessage') = 672
          /\ \A i \in 1..672 : snpMessage'[i] = snpReport[i]
          /\ snpReport' = snpReport]_vars

\* get_message has returned for a report with a changed byte.
C4_Witness ==
    /\ snpPc = "loaded"
    /\ snpEdits > 0
    /\ Len(snpMessage) > 0

StoredR(report) == [i \in 1..72 |-> report[672 + 72 + 1 - i]]
StoredS(report) == [i \in 1..72 |-> report[672 + 144 + 1 - i]]

\* C5: get_signature encodes (R, S), R the reverse of bytes [0x2A0, 0x2A0+0x48)
\* and S the reverse of bytes [0x2A0+0x48, 0x2A0+0x90); the result is the one
\* test_milan_validation builds by hand, and two reports that agree on
\* [0x2A0, 0x2A0+0x90) have the same result.
C5_SignatureFields ==
    (snpPc = "loaded" /\ snpSignature # <<>>) =>
        /\ snpSignature = EcdsaSig_to_vec(UIntBytes_new(StoredR(snpReport)),
                                          UIntBytes_new(StoredS(snpReport)))
        /\ snpSignature = test_milan_validation_der(snpReport)
        /\ (snpPrevSignature # <<>>
            /\ \A i \in 673..816 : snpReport[i] = snpPrevReport[i])
              => snpSignature = snpPrevSignature

\* get_signature has returned for two reports that differ after the S field only.
C5_Witness ==
    /\ snpPc = "loaded"
    /\ snpSignature # <<>>
    /\ snpPrevSignature # <<>>
    /\ \A i \in 1..816 : snpReport[i] = snpPrevReport[i]
    /\ \E i \in 817..1184 : snpReport[i] # snpPrevReport[i]
    /\ StoredR(snpReport) # StoredS(snpReport)

(***************************************************************************)
(* Claims about the /attest handler (SpecAttest).                          *)
(***************************************************************************)
\* C6: a request is answered OK, with a certificate, only when its Content-Type
\* is application/pkcs10 and its body is a certification request whose
\* signature verifies; every other request is answered BAD_REQUEST, and nothing
\* is built or signed for it.
C6_OnlyValidRequests ==
    \A r \in Slots :
        /\ reqs[r].status = "OK" =>
              /\ reqs[r].ct = "application/pkcs10"
              /\ reqs[r].body = "csr_ok"
              /\ reqs[r].cert.built
        /\ (reqs[r].pc # "idle"
            /\ (reqs[r].ct # "application/pkcs10" \/ reqs[r].body # "csr_ok")) =>
              /\ reqs[r].pc = "done"
              /\ reqs[r].status = "BAD_REQUEST"
              /\ ~reqs[r].cert.built
              /\ ~reqs[r].hasSerial

\* One request was answered with a certificate, another, whose CSR signature
\* does not verify, with BAD_REQUEST.
C6_Witness ==
    /\ reqs[1].status = "OK"
    /\ reqs[1].cert.built
    /\ reqs[2].ct = "application/pkcs10"
    /\ reqs[2].body = "csr_bad_sig"
    /\ reqs[2].status = "BAD_REQUEST"

\* C10: whatever the interleaving, the values returned by fetch_add are
\* 0, 1, 2, ... in the order of the operations, and no two requests hold the
\* same serial number.
C10_SerialsDistinct ==
    /\ \A i \in 1..Len(fetchLog) : fetchLog[i] = i - 1
    /\ \A r1, r2 \in Slots :
          (r1 # r2 /\ reqs[r1].hasSerial /\ reqs[r2].hasSerial)
             => reqs[r1].serial # reqs[r2].serial
    /\ \A r \in Slots :
          reqs[r].hasSerial =>
             \E i \in 1..Len(fetchLog) : fetchLog[i] = reqs[r].serial
    /\ Cardinality({r \in Slots : reqs[r].hasSerial}) = Len(fetchLog)

\* Two requests hold their serial numbers at once, the later arrival the
\* smaller one.
C10_Witness ==
    /\ reqs[1].pc = "sign"
    /\ reqs[2].pc = "sign"
    /\ reqs[1].serial = 1
    /\ reqs[2].serial = 0


\* The requests that took a serial number.
Served == {r \in Slots : reqs[r].hasSerial}

\* The counter is the number of requests that took a serial number; such a
\* request passed every check, and keeps its number whatever happens next.
CounterAccounts ==
    /\ ord = Cardinality(Served)
    /\ \A r \in Slots :
          /\ reqs[r].hasSerial =>
                /\ reqs[r].ct = "application/pkcs10"
                /\ reqs[r].body = "csr_ok"
                /\ reqs[r].pc \in {"sign", "done"}
                /\ reqs[r].status \in {"", "OK", "INTERNAL_SERVER_ERROR"}
          /\ reqs[r].status = "BAD_REQUEST" => ~reqs[r].hasSerial
          /\ reqs[r].pc \in {"idle", "fetch"} => ~reqs[r].hasSerial
          /\ reqs[r].status = "OK" => reqs[r].hasSerial

\* A step changes the counter only where one request that passed the checks
\* takes its serial number, and then by one; the answer to a request, BAD_REQUEST
\* or a failure after the serial number was taken, leaves the counter alone.
CounterStep ==
    /\ ord' # ord =>
          /\ ord' = ord + 1
          /\ \E r \in Slots :
                /\ reqs[r].pc = "fetch"
                /\ reqs'[r].pc = "sign"
                /\ ~reqs[r].hasSerial
                /\ reqs'[r].hasSerial
                /\ reqs'[r].serial = ord
                /\ \A q \in Slots \ {r} : reqs'[q] = reqs[q]
    /\ \A r \in Slots :
          /\ (reqs[r].pc # "done" /\ reqs'[r].pc = "done") => ord' = ord
          /\ reqs[r].hasSerial =>
                (reqs'[r].hasSerial /\ reqs'[r].serial = reqs[r].serial)
          /\ (reqs[r].pc = "fetch" /\ reqs'[r].pc = "sign") => ord' = ord + 1

\* C11: State.ord changes only where attest takes a serial number, by exactly
\* one per request that passed the content-type check, the decoding and
\* verification of the CSR and the construction of the validity; a request
\* answered BAD_REQUEST leaves it unchanged, and a request that fails after the
\* fetch_add keeps the number it took.
C11_CounterFrame == []CounterAccounts /\ [][CounterStep]_vars

\* A gap: the request that took serial number 0 failed at the signing, the one
\* that took 1 got its certificate, and a third was answered BAD_REQUEST.
C11_Witness ==
    /\ ord = 2
    /\ reqs[1].hasSerial /\ reqs[1].serial = 0
    /\ reqs[1].status = "INTERNAL_SERVER_ERROR"
    /\ reqs[2].status = "OK" /\ reqs[2].cert.serial_number = 1
    /\ reqs[3].status = "BAD_REQUEST"


====
